---- MODULE Spec2Model ----
(***************************************************************************)
(* Verification model of the cold-control laboratory scripts:              *)
(*   - classes/oscilloscope_manager_big_scope.py  (OscilloscopeManager)    *)
(*   - calibrations/calibration_scripts/calibrate_flip_arm.py              *)
(*   - instruments/WX218x/WX218x_dll_compat_shim.py                        *)
(*   - waveforms/stirap_rabi_generator.py, waveforms/waveform_plotter.py   *)
(* Each component is a state machine of its own (ScopeSpec, ...); the      *)
(* variables of the other components stay at their initial value.          *)
(***************************************************************************)
EXTENDS Integers, Sequences, FiniteSets, TLC

(***************************************************************************)
(* Bounds of the model                                                     *)
(***************************************************************************)
\* largest max_acq_wait_sec, in clock ticks
MaxWait == 3
\* largest poll_interval_sec, in clock ticks
MaxPoll == 2
\* number of arm_scope / wait_for_acquisition calls made on one object
MaxCalls == 1
\* longest `voltages` passed to measure_loop
MaxN == 2
\* largest `repeats` passed to measure_loop
MaxRepeats == 2
\* largest `delay` passed to measure_loop, in clock ticks
MaxDelay == 1
\* most rows of a calibration table given to fit_and_interpolate
MaxRows == 3
\* number of WX218x_DLL instances
MaxInst == 2
\* largest number of samples N of a generate_rabi call
MaxSamples == 2
\* longest array passed to export_to_csv directly
MaxArray == 3

VARIABLES
    \* ---- OscilloscopeManager --------------------------------------------
    sobj,      \* "none" | "live": whether a constructed object exists
    sopen,     \* the VISA session self.scope is open
    slog,      \* VISA operations issued so far, in order
    sprint,    \* lines printed so far
    scall,     \* the method being executed: "none" | "init" | "arm" | "wait"
    spc,       \* position inside the method
    snow,      \* time.perf_counter(), in ticks
    send,      \* local `end` of the polling loop
    spi,       \* poll_interval_sec of the running call
    spolls,    \* results of the polls of the running call, in order
    sready,    \* local `ready` of wait_for_acquisition
    sseen,     \* what the polls of the wait have shown so far, read off the replies
    sret,      \* how the last call ended
    scalls,    \* number of polling calls started
    sbase,     \* length of slog when the running call started
    sfault,    \* the exception the VISA layer threw into __init__, if any
    \* ---- calibrate_flip_arm.measure_loop -------------------------------
    mpc,       \* position inside measure_loop: "idle" | "outer" | "inner"
    margs,     \* the arguments of the running (or last) call
    mrep,      \* iterations of `for _ in range(repeats)` started
    miter,     \* what the iterator of `for v in voltages` still yields
    msrc,      \* what a one-shot `voltages` iterator still yields
    mdata,     \* local `data`
    mfile,     \* the file at output_csv
    mfile0,    \* the file at output_csv before anything ran
    mclock,    \* time.time(), in ticks
    mret,      \* how the last call ended
    hw,        \* the hardware: DAQ amplitude voltage, flip mirror, steps set
    hreads,    \* every power-meter read so far: which meter, at which step
    flipCalls, \* every argument `flip` was called with, in order
    \* ---- calibrate_flip_arm.fit_and_interpolate ------------------------
    ftruth,    \* how the table at calib_csv was made (the known line), if known
    fitX,      \* local `x`
    fitY,      \* local `y`
    finfo,     \* the returned fit_info
    fpred,     \* the a, b the returned predict closes over
    fret,      \* how the call ended
    predOut,   \* the last call of predict: its argument and result
    fread,     \* who wrote the file the fit read: "earlier" | "measure_loop"
    \* ---- calibrate_flip_arm.py run as a script -------------------------
    apc,       \* position in the __main__ block ("none": not run as a script)
    aenv,      \* the module globals the block binds: "unbound" | "None" | "object"
    ameters,   \* what happened when each power meter was opened
    aprint,    \* diagnostics printed by the except clauses
    aconf,     \* the meters configure_power_meter was called on, in order
    aret,      \* how the script ended
    \* ---- WX218x_dll_compat_shim ----------------------------------------
    wloaded,   \* WX218x_DLL._dll is a loaded WinDLL (not None)
    wexports,  \* the names the DLL exports
    wfuncs,    \* the function objects the WinDLL has made, with their prototype
    winst,     \* per instance: the names its __dict__ binds, and to what
    wlast,     \* the last attribute access or is_symbol_present call
    \* ---- waveforms/stirap_rabi_generator.py, waveform_plotter.py -------
    gcall,     \* the call made: its arguments and the arrays it computed
    gret,      \* how the call ended
    gfiles,    \* the files of the output directory: path -> text
    gprint,    \* what export_to_csv printed, in order
    gread      \* what waveform_plotter read: the data frame it plots

scopeVars == <<sobj, sopen, slog, sprint, scall, spc, snow, send, spi,
               spolls, sready, sseen, sret, scalls, sbase, sfault>>

measVars == <<mpc, margs, mrep, miter, msrc, mdata, mfile, mfile0, mclock, mret, hw,
              hreads, flipCalls>>

fitVars == <<ftruth, fitX, fitY, finfo, fpred, fret, predOut, fread>>

mainVars == <<apc, aenv, ameters, aprint, aconf, aret>>

shimVars == <<wloaded, wexports, wfuncs, winst, wlast>>

waveVars == <<gcall, gret, gfiles, gprint, gread>>

vars == <<scopeVars, measVars, fitVars, mainVars, shimVars, waveVars>>

\* what an action of one machine leaves alone: the other machines
notScope == <<measVars, fitVars, mainVars, shimVars, waveVars>>
notCalib == <<scopeVars, shimVars, waveVars>>
notShim == <<scopeVars, measVars, fitVars, mainVars, waveVars>>
notWave == <<scopeVars, measVars, fitVars, mainVars, shimVars>>

(***************************************************************************)
(* How a call ends: it returns a value or raises an exception              *)
(***************************************************************************)
\* `by` names the function that ended, `at` the statement that raised
NoResult == [how |-> "none", val |-> "", by |-> "", at |-> ""]
Returned(f, v) == [how |-> "returned", val |-> v, by |-> f, at |-> ""]
Raised(f, exc, where) == [how |-> "raised", val |-> exc, by |-> f, at |-> where]

(***************************************************************************)
(* Instrument replies and their conversions                                *)
(***************************************************************************)
\* replies a register query can give (the scope terminates replies by "\n")
RegReplies == {"0\n", "1\n", "2\n", "+1\n", "x\n", ""}
\* replies of :RSTATE?
StateReplies == {"STOP\n", "stop\n", "RUN\n", "SING\n"}

\* str.strip()
Strip(s) ==
    CASE s = "0\n" -> "0"
      [] s = "1\n" -> "1"
      [] s = "2\n" -> "2"
      [] s = "+1\n" -> "+1"
      [] s = "x\n" -> "x"
      [] s = "STOP\n" -> "STOP"
      [] s = "stop\n" -> "stop"
      [] s = "RUN\n" -> "RUN"
      [] s = "SING\n" -> "SING"
      [] OTHER -> s

\* str.upper()
Upper(s) == IF s = "stop" THEN "STOP" ELSE s

\* int(s): surrounding whitespace and a sign are accepted; anything else
\* raises ValueError (ok = FALSE)
IntOf(n) == [ok |-> TRUE, val |-> n]
ValueError == [ok |-> FALSE, val |-> 0]
ParseInt(s) ==
    LET t == Strip(s) IN
    CASE t = "0" -> IntOf(0)
      [] t = "1" -> IntOf(1)
      [] t = "2" -> IntOf(2)
      [] t = "+1" -> IntOf(1)
      [] OTHER -> ValueError

(***************************************************************************)
(* OscilloscopeManager.__init__                                            *)
(***************************************************************************)
\* where the constructor can fail, and with what kind of exception
InitSteps == <<"rm", "open", "idn">>
InitOp(step) ==
    CASE step = "rm" -> "ResourceManager()"
      [] step = "open" -> "open_resource"
      [] step = "idn" -> "q:*IDN?"
ErrKinds == {"visa.Error", "OtherError"}
NoFault == [kind |-> "", at |-> ""]

\* index of a step in InitSteps
StepIndex(step) == CHOOSE i \in 1..Len(InitSteps) : InitSteps[i] = step

\* the VISA operations the try block issues when it fails at `failAt`
\* ("none": it does not fail)
InitOps(failAt) ==
    LET last == IF failAt = "none" THEN Len(InitSteps) ELSE StepIndex(failAt)
    IN [i \in 1..last |-> InitOp(InitSteps[i])]

\* a handler that raises a new error in place of the one it caught
InitExcept_Wrap(err) ==
    IF err.kind = "visa.Error"
    THEN [printed |-> <<"Error al conectar con el osciloscopio">>,
          raised |-> [kind |-> "RuntimeError", at |-> "except"]]
    ELSE [printed |-> <<>>, raised |-> err]

\* except visa.Error as e: print(...); raise
InitExcept(err) ==
    IF err.kind = "visa.Error"
    THEN [printed |-> <<"Error al conectar con el osciloscopio">>, raised |-> err]
    ELSE [printed |-> <<>>, raised |-> err]

ScopeConstruct ==
    /\ scall = "none" /\ sobj = "none" /\ sret = NoResult
    /\ \E failAt \in {"none", "rm", "open", "idn"}, kind \in ErrKinds :
         /\ slog' = slog \o InitOps(failAt)
         /\ sopen' = (failAt \in {"none", "idn"})
         /\ IF failAt = "none"
            THEN /\ sobj' = "live"
                 /\ sprint' = sprint \o <<"Conectado al osciloscopio:">>
                 /\ sfault' = NoFault
                 /\ sret' = Returned("__init__", "object")
            ELSE LET h == InitExcept([kind |-> kind, at |-> failAt]) IN
                 /\ sobj' = "none"
                 /\ sprint' = sprint \o h.printed
                 /\ sfault' = [kind |-> kind, at |-> failAt]
                 /\ sret' = Raised("__init__", h.raised.kind, h.raised.at)
    /\ UNCHANGED <<scall, spc, snow, send, spi, spolls, sready, sseen, scalls, sbase>>
    /\ UNCHANGED notScope

(***************************************************************************)
(* OscilloscopeManager.arm_scope                                           *)
(***************************************************************************)
CanCall == /\ sobj = "live" /\ sopen /\ scall = "none" /\ scalls < MaxCalls

\* lines 351-353: clear AER, arm, compute the deadline
ArmStart ==
    /\ CanCall
    /\ \E maxw \in 0..MaxWait, pi \in 1..MaxPoll :
         /\ send' = snow + maxw
         /\ spi' = pi
    /\ slog' = slog \o <<"q::AER?", "w::SINGLE">>
    /\ scall' = "arm" /\ spc' = "loop"
    /\ spolls' = <<>>
    /\ sret' = NoResult
    /\ scalls' = scalls + 1
    /\ sbase' = Len(slog)
    /\ UNCHANGED <<sobj, sopen, sprint, snow, sready, sseen, sfault>>
    /\ UNCHANGED notScope

\* lines 354-360: one poll of :AER? while the deadline has not passed
ArmPoll ==
    /\ scall = "arm" /\ spc = "loop" /\ snow < send
    /\ \E reply \in RegReplies :
         LET r == ParseInt(reply) IN
         /\ slog' = slog \o <<"q::AER?">>
         /\ spolls' = Append(spolls, [t |-> snow, r |-> r])
         /\ IF r = ValueError
            THEN /\ spc' = "fail"
                 /\ UNCHANGED <<sprint, sret, scall>>
            ELSE IF r = IntOf(1)
            THEN /\ sprint' = Append(sprint, "Oscilloscope armed successfully.")
                 /\ sret' = Returned("arm_scope", "True")
                 /\ spc' = "idle" /\ scall' = "none"
            ELSE /\ spc' = "sleep"
                 /\ UNCHANGED <<sprint, sret, scall>>
    /\ UNCHANGED <<sobj, sopen, snow, send, spi, sready, sseen, scalls, sbase, sfault>>
    /\ UNCHANGED notScope

\* line 361: time.sleep(poll_interval_sec)
ArmSleep ==
    /\ scall = "arm" /\ spc = "sleep"
    /\ snow' = snow + spi
    /\ spc' = "loop"
    /\ UNCHANGED <<sobj, sopen, slog, sprint, scall, send, spi, spolls, sready, sseen,
                   sret, scalls, sbase, sfault>>
    /\ UNCHANGED notScope

\* line 354: the loop condition is false
ArmExpire ==
    /\ scall = "arm" /\ spc = "loop" /\ ~(snow < send)
    /\ spc' = "fail"
    /\ UNCHANGED <<sobj, sopen, slog, sprint, scall, snow, send, spi, spolls,
                   sready, sseen, sret, scalls, sbase, sfault>>
    /\ UNCHANGED notScope

\* a loop that reports the timeout by its return value
ArmAfterLoop_ReturnsFalse == Returned("arm_scope", "False")

\* line 363: how arm_scope ends once the loop is left
ArmAfterLoop == Raised("arm_scope", "RuntimeError", "line 363")

\* lines 362-363: clear and close the session, raise
ArmFail ==
    /\ scall = "arm" /\ spc = "fail"
    /\ slog' = slog \o <<"clear", "close">>
    /\ sopen' = FALSE
    /\ sret' = ArmAfterLoop
    /\ spc' = "idle" /\ scall' = "none"
    /\ UNCHANGED <<sobj, sprint, snow, send, spi, spolls, sready, sseen, scalls, sbase,
                   sfault>>
    /\ UNCHANGED notScope

(***************************************************************************)
(* OscilloscopeManager.wait_for_acquisition                                *)
(***************************************************************************)
\* lines 369-372: what the four replies of one poll show. `garbled`: a
\* register reply is no integer; `failed`: one that int() is applied to is
\* none (OPER is converted only when RSTATE is STOP, PDER only when OPER is
\* 2 as well)
PollSees(ter, oper, rstate, pder) ==
    LET stop == Upper(Strip(rstate)) = "STOP" IN
    [ter |-> ParseInt(ter) \notin {ValueError, IntOf(0)},
     done |-> stop /\ ParseInt(oper) = IntOf(2) /\ ParseInt(pder) = IntOf(1),
     garbled |-> ValueError \in {ParseInt(ter), ParseInt(oper), ParseInt(pder)},
     failed |-> \/ ParseInt(ter) = ValueError
                \/ (stop /\ ParseInt(oper) = ValueError)
                \/ (stop /\ ParseInt(oper) = IntOf(2)
                         /\ ParseInt(pder) = ValueError)]

NoneSeen == [ter |-> FALSE, done |-> FALSE, garbled |-> FALSE, failed |-> FALSE]

\* what has been shown by some poll so far
Merge(seen, poll) ==
    [ter |-> seen.ter \/ poll.ter, done |-> seen.done \/ poll.done,
     garbled |-> seen.garbled \/ poll.garbled,
     failed |-> seen.failed \/ poll.failed]

\* lines 366-367
WaitStart ==
    /\ CanCall
    /\ \E maxw \in 0..MaxWait, pi \in 1..MaxPoll :
         /\ send' = snow + maxw
         /\ spi' = pi
    /\ sready' = <<FALSE, FALSE>>
    /\ sseen' = NoneSeen
    /\ scall' = "wait" /\ spc' = "loop"
    /\ spolls' = <<>>
    /\ sret' = NoResult
    /\ scalls' = scalls + 1
    /\ sbase' = Len(slog)
    /\ UNCHANGED <<sobj, sopen, slog, sprint, snow, sfault>>
    /\ UNCHANGED notScope

\* a try block that sets the flags anew at every poll
WaitTry_NoLatch(ready, ter, oper, rstate, pder) ==
    IF ParseInt(ter) = ValueError
    THEN [ready |-> ready, next |-> "break"]
    ELSE
      LET r0 == ParseInt(ter) # IntOf(0)
          stop == Upper(rstate) = "STOP"
      IN
      IF stop /\ ParseInt(oper) = ValueError
      THEN [ready |-> <<r0, ready[2]>>, next |-> "break"]
      ELSE IF stop /\ ParseInt(oper) = IntOf(2) /\ ParseInt(pder) = ValueError
      THEN [ready |-> <<r0, ready[2]>>, next |-> "break"]
      ELSE
        LET r1 == stop /\ ParseInt(oper) = IntOf(2) /\ ParseInt(pder) = IntOf(1)
        IN [ready |-> <<r0, r1>>,
            next |-> IF r0 /\ r1 THEN "return True" ELSE "sleep"]

\* lines 374-385: the body of the try block, for the four stripped replies.
\* `and` evaluates int(oper) only when rstate is STOP, and int(pder) only when
\* int(oper) is 2; an int() that raises leaves the loop.
WaitTry(ready, ter, oper, rstate, pder) ==
    IF ParseInt(ter) = ValueError
    THEN [ready |-> ready, next |-> "break"]
    ELSE
      LET r0 == ready[1] \/ (ParseInt(ter) # IntOf(0))
          stop == Upper(rstate) = "STOP"
      IN
      IF stop /\ ParseInt(oper) = ValueError
      THEN [ready |-> <<r0, ready[2]>>, next |-> "break"]
      ELSE IF stop /\ ParseInt(oper) = IntOf(2) /\ ParseInt(pder) = ValueError
      THEN [ready |-> <<r0, ready[2]>>, next |-> "break"]
      ELSE
        LET r1 == ready[2] \/ (stop /\ ParseInt(oper) = IntOf(2) /\ ParseInt(pder) = IntOf(1))
        IN [ready |-> <<r0, r1>>,
            next |-> IF r0 /\ r1 THEN "return True" ELSE "sleep"]

\* lines 368-385: one poll of the four registers
WaitPoll ==
    /\ scall = "wait" /\ spc = "loop" /\ snow < send
    /\ \E ter \in RegReplies, oper \in RegReplies, rstate \in StateReplies,
          pder \in RegReplies :
         LET t == WaitTry(sready, Strip(ter), Strip(oper), Strip(rstate),
                          Strip(pder))
         IN
         /\ slog' = slog \o <<"q::TER?", "q::OPER?", "q::RSTATE?", "q::PDER?">>
         /\ spolls' = Append(spolls, [t |-> snow, r |-> t.next])
         /\ sready' = t.ready
         /\ sseen' = Merge(sseen, PollSees(ter, oper, rstate, pder))
         /\ IF t.next = "return True"
            THEN /\ sret' = Returned("wait_for_acquisition", "True")
                 /\ spc' = "idle" /\ scall' = "none"
            ELSE IF t.next = "break"
            THEN /\ spc' = "fail"
                 /\ UNCHANGED <<sret, scall>>
            ELSE /\ spc' = "sleep"
                 /\ UNCHANGED <<sret, scall>>
    /\ sprint' = sprint
    /\ UNCHANGED <<sobj, sopen, snow, send, spi, scalls, sbase, sfault>>
    /\ UNCHANGED notScope

\* line 386
WaitSleep ==
    /\ scall = "wait" /\ spc = "sleep"
    /\ snow' = snow + spi
    /\ spc' = "loop"
    /\ UNCHANGED <<sobj, sopen, slog, sprint, scall, send, spi, spolls, sready, sseen,
                   sret, scalls, sbase, sfault>>
    /\ UNCHANGED notScope

\* line 368: the loop condition is false
WaitExpire ==
    /\ scall = "wait" /\ spc = "loop" /\ ~(snow < send)
    /\ spc' = "fail"
    /\ UNCHANGED <<sobj, sopen, slog, sprint, scall, snow, send, spi, spolls,
                   sready, sseen, sret, scalls, sbase, sfault>>
    /\ UNCHANGED notScope

\* a loop that raises on expiry, as arm_scope does
WaitAfterLoop_Raises == Raised("wait_for_acquisition", "RuntimeError", "line 387")

\* line 387: what follows the loop
WaitAfterLoop ==
    Returned("wait_for_acquisition", "False")

WaitFail ==
    /\ scall = "wait" /\ spc = "fail"
    /\ sret' = WaitAfterLoop
    /\ spc' = "idle" /\ scall' = "none"
    /\ UNCHANGED <<sobj, sopen, slog, sprint, snow, send, spi, spolls, sready, sseen,
                   scalls, sbase, sfault>>
    /\ UNCHANGED notScope

(***************************************************************************)
(* calibrate_flip_arm.py: the hardware behind the callables                *)
(***************************************************************************)
\* optical power of the beam for a DAQ amplitude voltage
BeamPower(v) == v + 1

\* pm_flip.read: the flip-arm meter sees the beam while the mirror is up
FlipMeter(h) == IF h.mirror = "up" THEN BeamPower(h.volt) ELSE 0

\* pm_target.read: the target meter sees the attenuated beam while the
\* mirror is down
TargetMeter(h) ==
    IF h.mirror = "down" THEN h.gain * BeamPower(h.volt) + h.offset ELSE 0

\* daq.updateChannelValue(amp_channel, v)
SetVoltage(h, v) == [h EXCEPT !.volt = v, !.step = @ + 1]

\* the positions a flip callable accepts: flip_fn of the script (lines
\* 216-222) takes "up"/"down"; one written to the docstring of measure_loop
\* takes "in"/"out". Anything else raises ValueError.
FlipAccepts(kind) ==
    IF kind = "updown" THEN {"up", "down"} ELSE {"in", "out"}

\* the mirror after an accepted flip(pos)
FlipFn(h, pos) ==
    [h EXCEPT !.mirror = IF pos \in {"up", "out"} THEN "up" ELSE "down"]

(***************************************************************************)
(* calibrate_flip_arm.measure_loop                                         *)
(***************************************************************************)
\* line 63
header == <<"voltage", "power_flip", "power_target", "timestamp">>

\* a to_csv that opens the file for appending
ToCsv_Append(old, cols, data) ==
    IF old.exists
    THEN [exists |-> TRUE, header |-> old.header, rows |-> old.rows \o data]
    ELSE [exists |-> TRUE, header |-> cols, rows |-> data]

\* the file a DataFrame(data, columns=cols).to_csv(path, index=False) leaves
\* at a path that held `old`: mode "w" truncates
ToCsv(old, cols, data) == [exists |-> TRUE, header |-> cols, rows |-> data]

\* iter(voltages): a list or array gives a fresh iterator over all its
\* items, an iterator gives itself
Iter(kind, voltages, src) == IF kind = "list" THEN voltages ELSE src

\* lines 67-80: one pass of the inner loop body for voltage v, with the
\* hardware h at time `now`. `fault` names the callable that raises.
LoopBody(v, h, now, delay, flipKind, fault) ==
    LET h1 == SetVoltage(h, v)
        up == "up"
        h2 == FlipFn(h1, up)
        p1 == FlipMeter(h2)
        down == "down"
        h3 == FlipFn(h2, down)
        p2 == TargetMeter(h3)
        ts == now + delay + delay
    IN
    IF fault = "set_voltage"
    THEN [raised |-> "set_voltage", hw |-> h, flips |-> <<>>, reads |-> <<>>,
          row |-> <<>>, now |-> now]
    ELSE IF up \notin FlipAccepts(flipKind)
    THEN [raised |-> "ValueError", hw |-> h1, flips |-> <<up>>, reads |-> <<>>,
          row |-> <<>>, now |-> now]
    ELSE IF fault = "read_power_flip"
    THEN [raised |-> "read_power_flip", hw |-> h2, flips |-> <<up>>,
          reads |-> <<>>, row |-> <<>>, now |-> now + delay]
    ELSE IF down \notin FlipAccepts(flipKind)
    THEN [raised |-> "ValueError", hw |-> h2, flips |-> <<up, down>>,
          reads |-> <<[meter |-> "flip", step |-> h2.step, volt |-> h2.volt,
                      val |-> p1]>>,
          row |-> <<>>, now |-> now + delay]
    ELSE [raised |-> "",  hw |-> h3, flips |-> <<up, down>>,
          reads |-> <<[meter |-> "flip", step |-> h2.step, volt |-> h2.volt,
                       val |-> p1],
                      [meter |-> "target", step |-> h3.step, volt |-> h3.volt,
                       val |-> p2]>>,
          row |-> <<v, p1, p2, ts>>, now |-> ts]

\* the values a sweep can step through, and the sweeps of at most n values
Volts == {0, 1, 3}
Sweeps(n) == UNION {[1..k -> Volts] : k \in 0..n}

\* the call: lines 61-63
MeasureCall ==
    /\ UNCHANGED mainVars
    /\ UNCHANGED fitVars
    /\ mpc = "idle" /\ mret = NoResult /\ apc = "none"
    /\ \E voltages \in Sweeps(MaxN), kind \in {"list", "iterator"},
          repeats \in 1..MaxRepeats, delay \in 1..MaxDelay,
          flipKind \in {"updown", "inout"} :
         margs' = [voltages |-> voltages, kind |-> kind, repeats |-> repeats,
                   delay |-> delay, flip |-> flipKind]
    /\ msrc' = margs'.voltages
    /\ mdata' = <<>> /\ mrep' = 0 /\ miter' = <<>>
    /\ mpc' = "outer"
    /\ UNCHANGED <<mfile, mfile0, mclock, mret, hw, hreads, flipCalls>>
    /\ UNCHANGED notCalib

\* line 65-66: the next pass of the outer loop starts the inner loop
MeasureOuter ==
    /\ UNCHANGED mainVars
    /\ UNCHANGED fitVars
    /\ mpc = "outer" /\ mrep < margs.repeats
    /\ mrep' = mrep + 1
    /\ miter' = Iter(margs.kind, margs.voltages, msrc)
    /\ mpc' = "inner"
    /\ UNCHANGED <<margs, msrc, mdata, mfile, mfile0, mclock, mret, hw, hreads,
                   flipCalls>>
    /\ UNCHANGED notCalib

\* lines 66-80: the inner loop takes the next voltage and runs the body
MeasureStep ==
    /\ UNCHANGED mainVars
    /\ UNCHANGED fitVars
    /\ mpc = "inner" /\ miter # <<>>
    /\ \E fault \in {"", "set_voltage", "read_power_flip"} :
         LET b == LoopBody(Head(miter), hw, mclock, margs.delay, margs.flip,
                           fault)
         IN
         /\ hw' = b.hw
         /\ flipCalls' = flipCalls \o b.flips
         /\ hreads' = hreads \o b.reads
         /\ mclock' = b.now
         /\ IF b.raised = ""
            THEN /\ mdata' = Append(mdata, b.row)
                 /\ UNCHANGED <<mpc, mret>>
            ELSE /\ mret' = Raised("measure_loop", b.raised, "loop body")
                 /\ mpc' = "idle"
                 /\ UNCHANGED mdata
    /\ miter' = Tail(miter)
    /\ msrc' = IF margs.kind = "iterator" THEN Tail(msrc) ELSE msrc
    /\ UNCHANGED <<margs, mrep, mfile, mfile0>>
    /\ UNCHANGED notCalib

\* line 66: the inner iterator is exhausted
MeasureInnerEnd ==
    /\ UNCHANGED mainVars
    /\ UNCHANGED fitVars
    /\ mpc = "inner" /\ miter = <<>>
    /\ mpc' = "outer"
    /\ UNCHANGED <<margs, mrep, miter, msrc, mdata, mfile, mfile0, mclock, mret,
                   hw, hreads, flipCalls>>
    /\ UNCHANGED notCalib

\* lines 83-85: the outer loop is over; the frame is written and the call
\* returns None
MeasureSave ==
    /\ UNCHANGED mainVars
    /\ UNCHANGED fitVars
    /\ mpc = "outer" /\ ~(mrep < margs.repeats)
    /\ mfile' = ToCsv(mfile, header, mdata)
    /\ mret' = Returned("measure_loop", "None")
    /\ mpc' = "idle"
    /\ UNCHANGED <<margs, mrep, miter, msrc, mdata, mfile0, mclock, hw, hreads,
                   flipCalls>>
    /\ UNCHANGED notCalib

\* the files an earlier run can have left at output_csv
NoFile == [exists |-> FALSE, header |-> <<>>, rows |-> <<>>]
EarlierFiles ==
    {NoFile,
     [exists |-> TRUE, header |-> header, rows |-> <<<<9, 9, 9, 9>>>>],
     [exists |-> TRUE, header |-> <<"voltage", "power1", "power2">>,
      rows |-> <<<<7, 1, 2>>, <<8, 2, 4>>>>],
     [exists |-> TRUE, header |-> <<"flip", "target">>,
      rows |-> <<<<1, 2>>, <<2, 4>>>>]}

\* the attenuations between flip arm and target the set-up can have
Setups == {[gain |-> 2, offset |-> 1], [gain |-> 1, offset |-> 0]}

\* before any call: the file is `file`, the set-up is `su`
MeasBefore(file, su) ==
    /\ mpc = "idle" /\ mret = NoResult
    /\ margs = [voltages |-> <<>>, kind |-> "list", repeats |-> 1,
                delay |-> 1, flip |-> "updown"]
    /\ mrep = 0 /\ miter = <<>> /\ msrc = <<>> /\ mdata = <<>>
    /\ mfile = file /\ mfile0 = file
    /\ mclock = 0
    /\ hw = [volt |-> 0, mirror |-> "down", step |-> 0, gain |-> su.gain,
             offset |-> su.offset]
    /\ hreads = <<>> /\ flipCalls = <<>>

MeasInit == \E file \in EarlierFiles, su \in Setups : MeasBefore(file, su)
MeasIdle == MeasBefore(NoFile, [gain |-> 1, offset |-> 0])

(***************************************************************************)
(* Exact arithmetic for the least-squares fit: a number is a fraction n/d  *)
(* in lowest terms with d > 0                                              *)
(***************************************************************************)
Abs(i) == IF i < 0 THEN -i ELSE i

RECURSIVE Gcd(_, _)
Gcd(i, j) == IF j = 0 THEN i ELSE Gcd(j, i % j)

Rat(num, den) ==
    LET g == Gcd(Abs(num), Abs(den))
        sgn == IF den < 0 THEN -1 ELSE 1
    IN [n |-> sgn * (num \div g), d |-> sgn * (den \div g)]

RInt(i) == [n |-> i, d |-> 1]
RAdd(p, q) == Rat(p.n * q.d + q.n * p.d, p.d * q.d)
RSub(p, q) == Rat(p.n * q.d - q.n * p.d, p.d * q.d)
RMul(p, q) == Rat(p.n * q.n, p.d * q.d)
NaN == [n |-> 0, d |-> 0]

RECURSIVE Sum(_)
Sum(seq) == IF seq = <<>> THEN 0 ELSE Head(seq) + Sum(Tail(seq))

RECURSIVE RSum(_)
RSum(seq) == IF seq = <<>> THEN RInt(0) ELSE RAdd(Head(seq), RSum(Tail(seq)))

\* elementwise product of two arrays of one length
Prod(x, y) == [i \in 1..Len(x) |-> x[i] * y[i]]

(***************************************************************************)
(* calibrate_flip_arm.fit_and_interpolate                                  *)
(***************************************************************************)
\* a fit forced through the origin
PolyFit_ThroughOrigin(x, y) ==
    IF Sum(Prod(x, x)) = 0
    THEN [ok |-> FALSE, a |-> NaN, b |-> NaN]
    ELSE [ok |-> TRUE, a |-> Rat(Sum(Prod(x, y)), Sum(Prod(x, x))), b |-> RInt(0)]

\* np.polyfit(x, y, 1): the least-squares line through the points, from the
\* normal equations. Without two distinct x the system is rank deficient
\* and numpy returns a minimum-norm solution that is not modelled (ok = FALSE).
PolyFit(x, y) ==
    LET n == Len(x)
        den == n * Sum(Prod(x, x)) - Sum(x) * Sum(x)
    IN
    IF den = 0
    THEN [ok |-> FALSE, a |-> NaN, b |-> NaN]
    ELSE [ok |-> TRUE,
          a |-> Rat(n * Sum(Prod(x, y)) - Sum(x) * Sum(y), den),
          b |-> Rat(Sum(Prod(x, x)) * Sum(y) - Sum(x) * Sum(Prod(x, y)), den)]

\* position of a column name in the header (0: absent)
ColumnOf(cols, name) ==
    IF \E i \in 1..Len(cols) : cols[i] = name
    THEN CHOOSE i \in 1..Len(cols) : cols[i] = name
    ELSE 0

\* a rename that takes the first two columns for x and y
FitColumns_FirstTwo(cols) ==
    IF ColumnOf(cols, "power1") = 0 \/ ColumnOf(cols, "power2") = 0
    THEN IF Len(cols) < 3
         THEN [raised |-> "ValueError", x |-> 0, y |-> 0]
         ELSE [raised |-> "", x |-> 1, y |-> 2]
    ELSE [raised |-> "", x |-> ColumnOf(cols, "power1"),
          y |-> ColumnOf(cols, "power2")]

\* lines 126-131: the positions of the x and the y column in the file. A
\* frame without both names gets its first three columns renamed, which
\* raises when there are fewer than three.
FitColumns(cols) ==
    IF ColumnOf(cols, "power1") = 0 \/ ColumnOf(cols, "power2") = 0
    THEN IF Len(cols) < 3
         THEN [raised |-> "ValueError", x |-> 0, y |-> 0]
         ELSE [raised |-> "", x |-> 2, y |-> 3]
    ELSE [raised |-> "", x |-> ColumnOf(cols, "power1"),
          y |-> ColumnOf(cols, "power2")]

\* lines 134-139 and 144: fit_info for the fitted a, b (rmse is kept as its
\* square, the mean squared residual)
FitInfo(x, y, a, b) ==
    LET n == Len(x)
        res == [i \in 1..n |-> RSub(RInt(y[i]), RAdd(RMul(a, RInt(x[i])), b))]
        ss_res == RSum([i \in 1..n |-> RMul(res[i], res[i])])
        mean == Rat(Sum(y), n)
        ss_tot == RSum([i \in 1..n |->
                        RMul(RSub(RInt(y[i]), mean), RSub(RInt(y[i]), mean))])
    IN [a |-> a, b |-> b,
        r2 |-> IF ss_tot.n # 0
               THEN RSub(RInt(1), Rat(ss_res.n * ss_tot.d, ss_res.d * ss_tot.n))
               ELSE NaN,
        mse |-> RMul(ss_res, Rat(1, n)),
        n |-> n]

\* lines 141-142: predict(p1) for the closed-over a, b
Predict(ab, p1) == RAdd(RMul(ab.a, RInt(p1)), ab.b)

NoFit == [a |-> NaN, b |-> NaN, r2 |-> NaN, mse |-> NaN, n |-> 0]
NoPred == [a |-> NaN, b |-> NaN]
NoTruth == [known |-> FALSE, a |-> 0, b |-> 0, xs |-> <<>>, clean |-> FALSE]

\* the whole call (out_png = None): lines 125-144 and 160
FitCall ==
    /\ UNCHANGED mainVars
    /\ mpc = "idle" /\ fret = NoResult
    /\ (apc = "none" \/ (apc = "measuring" /\ mret.how = "returned"))
    /\ IF ~mfile.exists
       THEN /\ fret' = Raised("fit_and_interpolate", "FileNotFoundError", "line 125")
            /\ UNCHANGED <<fitX, fitY, finfo, fpred>>
       ELSE
         LET c == FitColumns(mfile.header)
             x == [i \in 1..Len(mfile.rows) |-> mfile.rows[i][c.x]]
             y == [i \in 1..Len(mfile.rows) |-> mfile.rows[i][c.y]]
             f == PolyFit(x, y)
         IN
         IF c.raised # ""
         THEN /\ fret' = Raised("fit_and_interpolate", c.raised, "line 128")
              /\ UNCHANGED <<fitX, fitY, finfo, fpred>>
         ELSE IF Len(x) = 0
         THEN /\ fret' = Raised("fit_and_interpolate", "TypeError", "line 133")
              /\ fitX' = x /\ fitY' = y
              /\ UNCHANGED <<finfo, fpred>>
         ELSE IF ~f.ok
         THEN /\ fret' = Returned("fit_and_interpolate", "rank deficient")
              /\ fitX' = x /\ fitY' = y
              /\ UNCHANGED <<finfo, fpred>>
         ELSE /\ fret' = Returned("fit_and_interpolate", "(predict, fit_info)")
              /\ fitX' = x /\ fitY' = y
              /\ finfo' = FitInfo(x, y, f.a, f.b)
              /\ fpred' = [a |-> f.a, b |-> f.b]
    /\ fread' = IF mret = Returned("measure_loop", "None")
                THEN "measure_loop" ELSE "earlier"
    /\ UNCHANGED <<ftruth, predOut>>
    /\ UNCHANGED measVars
    /\ UNCHANGED notCalib

\* the arguments predict is tried on
Probes == {-1, 0, 2}

\* a call of the returned predict
PredictCall ==
    /\ UNCHANGED mainVars
    /\ fret = Returned("fit_and_interpolate", "(predict, fit_info)")
    /\ predOut.called = FALSE /\ apc = "none"
    /\ \E p1 \in Probes :
         predOut' = [called |-> TRUE, p1 |-> p1, val |-> Predict(fpred, p1)]
    /\ UNCHANGED <<ftruth, fitX, fitY, finfo, fpred, fret, fread>>
    /\ UNCHANGED measVars
    /\ UNCHANGED notCalib

\* before any call of fit_and_interpolate
FitBefore ==
    /\ fitX = <<>> /\ fitY = <<>>
    /\ finfo = NoFit /\ fpred = NoPred
    /\ fret = NoResult
    /\ predOut = [called |-> FALSE, p1 |-> 0, val |-> NaN]
    /\ fread = "none"

FitIdle == FitBefore /\ ftruth = NoTruth

\* calibration tables with a known line power2 = a*power1 + b through the
\* points xs, in the layouts fit_and_interpolate is given: the columns of
\* measure_loop, named power1/power2 columns, and those two alone in the
\* other order. `bad` is the row that lies off the line (0: none).
Layouts == {"measure_loop", "named", "swapped"}
TableOf(layout, a, b, xs, bad) ==
    LET y(i) == a * xs[i] + b + (IF i = bad THEN 1 ELSE 0)
        v(i) == 10 + i
        ts(i) == 100 + i
    IN
    CASE layout = "measure_loop" ->
           [exists |-> TRUE, header |-> header,
            rows |-> [i \in 1..Len(xs) |-> <<v(i), xs[i], y(i), ts(i)>>]]
      [] layout = "named" ->
           [exists |-> TRUE, header |-> <<"voltage", "power1", "power2">>,
            rows |-> [i \in 1..Len(xs) |-> <<v(i), xs[i], y(i)>>]]
      [] layout = "swapped" ->
           [exists |-> TRUE, header |-> <<"power2", "power1">>,
            rows |-> [i \in 1..Len(xs) |-> <<y(i), xs[i]>>]]

Slopes == {-2, 0, 3}
Intercepts == {-1, 4}
Powers == {-1, 0, 2}

FitInit ==
    /\ FitBefore
    /\ \E layout \in Layouts, a \in Slopes, b \in Intercepts,
          k \in 0..MaxRows :
         \E xs \in [1..k -> Powers], bad \in 0..k :
           /\ ftruth = [known |-> TRUE, a |-> a, b |-> b, xs |-> xs,
                        clean |-> (bad = 0)]
           /\ MeasBefore(TableOf(layout, a, b, xs, bad),
                         [gain |-> 1, offset |-> 0])

(***************************************************************************)
(* calibrate_flip_arm.py, the __main__ block                               *)
(***************************************************************************)
\* line 179: voltages_list = np.linspace(0, 4, 30), in steps of 4/29 V
MainPoints == 30
voltages_list == [i \in 1..MainPoints |-> i - 1]
\* line 229: repeats=2
MainRepeats == 2
\* line 44: delay: float = 5.0
DefaultDelay == 5

\* what opening a power meter and asking *IDN? can give
MeterOutcomes == {"open_fails", "idn_fails", "PM100A", "other_model", "malformed"}

\* lines 187-195 (pm = "pm_target") and 197-205 (pm = "pm_flip"): the try
\* block binds <pm>_res when the resource opens and <pm> when the second
\* field of the *IDN? reply is PM100A; VisaIOError is caught and reported;
\* a reply without a comma raises IndexError, which is not caught.
OpenMeter(env, pm, outcome) ==
    LET res == IF pm = "pm_target" THEN "pm_target_res" ELSE "pm_flip_res"
        opened == [env EXCEPT ![res] = "object"]
    IN
    CASE outcome = "open_fails" ->
           [env |-> env, printed |-> <<pm, "not available">>, raised |-> ""]
      [] outcome = "idn_fails" ->
           [env |-> opened, printed |-> <<pm, "not available">>, raised |-> ""]
      [] outcome = "PM100A" ->
           [env |-> [opened EXCEPT ![pm] = "object"], printed |-> <<>>,
            raised |-> ""]
      [] outcome = "other_model" ->
           [env |-> opened, printed |-> <<>>, raised |-> ""]
      [] outcome = "malformed" ->
           [env |-> opened, printed |-> <<>>, raised |-> "IndexError"]

\* lines 208-209: `pm_target is None or pm_flip is None` looks the names up
\* from left to right; an unbound global raises NameError
MeterCheck(env) ==
    IF env["pm_target"] = "unbound" THEN "NameError"
    ELSE IF env["pm_target"] = "None" THEN "Exception: One of the power meters was not found, cannot continue."
    ELSE IF env["pm_flip"] = "unbound" THEN "NameError"
    ELSE IF env["pm_flip"] = "None" THEN "Exception: One of the power meters was not found, cannot continue."
    ELSE ""

\* lines 167-185: the DAQ is loaded; no meter name is bound yet
MainStart ==
    /\ apc = "none" /\ mpc = "idle" /\ mret = NoResult /\ fret = NoResult
    /\ apc' = "open_target"
    /\ UNCHANGED <<aenv, ameters, aprint, aconf, aret>>
    /\ UNCHANGED <<measVars, fitVars>>
    /\ UNCHANGED notCalib

\* lines 187-195
MainOpenTarget ==
    /\ apc = "open_target"
    /\ \E outcome \in MeterOutcomes :
         LET o == OpenMeter(aenv, "pm_target", outcome) IN
         /\ aenv' = o.env
         /\ aprint' = aprint \o o.printed
         /\ ameters' = [ameters EXCEPT !.target = outcome]
         /\ IF o.raised = ""
            THEN apc' = "open_flip" /\ UNCHANGED aret
            ELSE apc' = "stopped" /\ aret' = Raised("__main__", o.raised, "line 191")
    /\ UNCHANGED aconf
    /\ UNCHANGED <<measVars, fitVars>>
    /\ UNCHANGED notCalib

\* lines 197-205
MainOpenFlip ==
    /\ apc = "open_flip"
    /\ \E outcome \in MeterOutcomes :
         LET o == OpenMeter(aenv, "pm_flip", outcome) IN
         /\ aenv' = o.env
         /\ aprint' = aprint \o o.printed
         /\ ameters' = [ameters EXCEPT !.flip = outcome]
         /\ IF o.raised = ""
            THEN apc' = "check" /\ UNCHANGED aret
            ELSE apc' = "stopped" /\ aret' = Raised("__main__", o.raised, "line 201")
    /\ UNCHANGED aconf
    /\ UNCHANGED <<measVars, fitVars>>
    /\ UNCHANGED notCalib

\* lines 208-209
MainCheck ==
    /\ apc = "check"
    /\ LET c == MeterCheck(aenv) IN
       IF c = ""
       THEN apc' = "configure" /\ UNCHANGED aret
       ELSE apc' = "stopped"
            /\ aret' = Raised("__main__", c,
                              IF c = "NameError" THEN "line 208" ELSE "line 209")
    /\ UNCHANGED <<aenv, ameters, aprint, aconf>>
    /\ UNCHANGED <<measVars, fitVars>>
    /\ UNCHANGED notCalib

\* lines 211-212
MainConfigure ==
    /\ apc = "configure"
    /\ aconf' = aconf \o <<"pm_flip", "pm_target">>
    /\ apc' = "measure"
    /\ UNCHANGED <<aenv, ameters, aprint, aret>>
    /\ UNCHANGED <<measVars, fitVars>>
    /\ UNCHANGED notCalib

\* lines 215-229: the call of measure_loop with the script's callables
MainMeasure ==
    /\ apc = "measure"
    /\ margs' = [voltages |-> voltages_list, kind |-> "list",
                 repeats |-> MainRepeats, delay |-> DefaultDelay,
                 flip |-> "updown"]
    /\ msrc' = voltages_list
    /\ mdata' = <<>> /\ mrep' = 0 /\ miter' = <<>>
    /\ mpc' = "outer"
    /\ apc' = "measuring"
    /\ UNCHANGED <<mfile, mfile0, mclock, mret, hw, hreads, flipCalls>>
    /\ UNCHANGED <<aenv, ameters, aprint, aconf, aret>>
    /\ UNCHANGED fitVars
    /\ UNCHANGED notCalib

\* an exception of measure_loop ends the script
MainMeasureRaised ==
    /\ apc = "measuring" /\ mpc = "idle" /\ mret.how = "raised"
    /\ apc' = "stopped"
    /\ aret' = Raised("__main__", mret.val, "line 228")
    /\ UNCHANGED <<aenv, ameters, aprint, aconf>>
    /\ UNCHANGED <<measVars, fitVars>>
    /\ UNCHANGED notCalib

\* lines 232-249: after the fit the resources are closed, unless the fit
\* raised
MainClose ==
    /\ apc = "measuring" /\ fret # NoResult
    /\ IF fret.how = "raised"
       THEN apc' = "stopped" /\ aret' = Raised("__main__", fret.val, "line 232")
       ELSE apc' = "finished" /\ aret' = Returned("__main__", "")
    /\ UNCHANGED <<aenv, ameters, aprint, aconf>>
    /\ UNCHANGED <<measVars, fitVars>>
    /\ UNCHANGED notCalib

MainIdle ==
    /\ apc = "none"
    /\ aenv = [n \in {"pm_target", "pm_flip", "pm_target_res", "pm_flip_res"}
                 |-> "unbound"]
    /\ ameters = [target |-> "not tried", flip |-> "not tried"]
    /\ aprint = <<>> /\ aconf = <<>>
    /\ aret = NoResult

(***************************************************************************)
(* WX218x_dll_compat_shim.py                                               *)
(***************************************************************************)
\* the names the DLL can export
DllSymbols == {"wx218x_init", "wx218x_ConfigureOnceCount2"}

\* the attribute names that are asked for: the symbols, a method of the
\* class, the instance's own field, an attribute of the WinDLL object that
\* is no export, and a dunder name
Names == DllSymbols \cup {"init", "_vi_session", "_handle", "__wrapped__"}

\* lines 57-66 and 105-134: what the class itself defines
ClassAttrs == {"_dll_path", "_dll", "init", "init_with_options"}

\* ctypes: the attributes a WinDLL object has besides its exports
DllOwnAttrs == {"_handle", "_name"}

\* str.startswith('_') and the dunder test of ctypes
StartsWithUnderscore(name) ==
    name \in {"_vi_session", "_handle", "__wrapped__", "_dll", "_dll_path", "_name"}
IsDunder(name) == name \in {"__wrapped__"}

\* lines 38-42
KNOWN_PROTOTYPES ==
    [n \in {"wx218x_init", "wx218x_InitWithOptions"} |->
        IF n = "wx218x_init"
        THEN [restype |-> "c_long",
              argtypes |-> <<"c_char_p", "c_ushort", "c_ushort", "POINTER(c_uint)">>]
        ELSE [restype |-> "c_long",
              argtypes |-> <<"c_char_p", "c_ushort", "c_ushort", "c_char_p",
                             "POINTER(c_uint)">>]]

\* a function object ctypes has just made: restype c_int, no argtypes
NewFunc == [made |-> TRUE, restype |-> "c_int", argtypes |-> <<"unset">>]
NoFunc == [made |-> FALSE, restype |-> "", argtypes |-> <<>>]

\* getattr(dll, name): a dunder name raises without a lookup; an attribute
\* of the object is returned; otherwise the export is looked up, and the
\* function object is made once and kept by the WinDLL
DllGetattr(funcs, exports, name) ==
    IF IsDunder(name)
    THEN [found |-> FALSE, funcs |-> funcs]
    ELSE IF name \in DllOwnAttrs
    THEN [found |-> TRUE, funcs |-> funcs]
    ELSE IF name \in exports
    THEN [found |-> TRUE,
          funcs |-> IF funcs[name].made THEN funcs
                    ELSE [funcs EXCEPT ![name] = NewFunc]]
    ELSE [found |-> FALSE, funcs |-> funcs]

\* a binding that sets a prototype only for the names it knows
SetPrototype_KnownOnly(f, name) ==
    IF name \in DOMAIN KNOWN_PROTOTYPES
    THEN [f EXCEPT !.restype = KNOWN_PROTOTYPES[name].restype,
                   !.argtypes = KNOWN_PROTOTYPES[name].argtypes]
    ELSE f

\* lines 90-98: the prototype given to a found function
SetPrototype(f, name) ==
    IF name \in DOMAIN KNOWN_PROTOTYPES
    THEN [f EXCEPT !.restype = KNOWN_PROTOTYPES[name].restype,
                   !.argtypes = KNOWN_PROTOTYPES[name].argtypes]
    ELSE [f EXCEPT !.restype = "c_long"]

\* what the instance stores for a symbol the DLL does not export (line 86)
MissingValue == "None"

\* a __getattr__ that returns None for a missing symbol without storing it
Getattr_NoStore(d, loaded, funcs, exports, name) ==
    IF StartsWithUnderscore(name)
    THEN [val |-> "AttributeError", d |-> d, funcs |-> funcs, lookup |-> FALSE]
    ELSE IF ~loaded
    THEN [val |-> "AttributeError", d |-> d, funcs |-> funcs, lookup |-> FALSE]
    ELSE
      LET g == DllGetattr(funcs, exports, name) IN
      IF ~g.found
      THEN [val |-> MissingValue, d |-> d, funcs |-> g.funcs, lookup |-> TRUE]
      ELSE [val |-> "func", d |-> [d EXCEPT ![name] = "func"],
            funcs |-> [g.funcs EXCEPT ![name] = SetPrototype(@, name)],
            lookup |-> TRUE]

\* lines 72-102: __getattr__(self, name) with the instance dictionary d
Getattr(d, loaded, funcs, exports, name) ==
    IF StartsWithUnderscore(name)
    THEN [val |-> "AttributeError", d |-> d, funcs |-> funcs, lookup |-> FALSE]
    ELSE IF ~loaded
    THEN [val |-> "AttributeError", d |-> d, funcs |-> funcs, lookup |-> FALSE]
    ELSE
      LET g == DllGetattr(funcs, exports, name) IN
      IF ~g.found
      THEN [val |-> MissingValue, d |-> [d EXCEPT ![name] = MissingValue],
            funcs |-> g.funcs, lookup |-> TRUE]
      ELSE [val |-> "func", d |-> [d EXCEPT ![name] = "func"],
            funcs |-> [g.funcs EXCEPT ![name] = SetPrototype(@, name)],
            lookup |-> TRUE]

\* instance.name: the instance dictionary, then the class, then __getattr__
Lookup(d, loaded, funcs, exports, name) ==
    IF d[name] # "unset"
    THEN [val |-> d[name], d |-> d, funcs |-> funcs, lookup |-> FALSE,
          via |-> "instance"]
    ELSE IF name \in ClassAttrs
    THEN [val |-> "class attribute", d |-> d, funcs |-> funcs,
          lookup |-> FALSE, via |-> "class"]
    ELSE [via |-> "__getattr__"] @@ Getattr(d, loaded, funcs, exports, name)

\* lines 68-70: a new instance binds only _vi_session
NewInstance == [n \in Names |-> IF n = "_vi_session" THEN "c_uint" ELSE "unset"]

\* WX218x_DLL(): line 139 makes the first, callers may make more
ShimNew ==
    /\ Len(winst) < MaxInst
    /\ winst' = Append(winst, NewInstance)
    /\ UNCHANGED <<wloaded, wexports, wfuncs, wlast>>
    /\ UNCHANGED notShim

\* an attribute access instance.name
ShimAccess ==
    /\ \E i \in 1..Len(winst), name \in Names :
         LET r == Lookup(winst[i], wloaded, wfuncs, wexports, name) IN
         /\ winst' = [winst EXCEPT ![i] = r.d]
         /\ wfuncs' = r.funcs
         /\ wlast' = [op |-> "access", inst |-> i, name |-> name,
                      val |-> r.val, via |-> r.via, lookup |-> r.lookup,
                      bound |-> winst[i][name] # "unset"]
    /\ UNCHANGED <<wloaded, wexports>>
    /\ UNCHANGED notShim

\* lines 142-150
SymbolPresent(loaded, funcs, exports, name) ==
    IF ~loaded
    THEN [val |-> FALSE, funcs |-> funcs]
    ELSE LET g == DllGetattr(funcs, exports, name) IN
         [val |-> g.found, funcs |-> g.funcs]

IsSymbolPresent ==
    /\ \E name \in Names :
         LET r == SymbolPresent(wloaded, wfuncs, wexports, name) IN
         /\ wfuncs' = r.funcs
         /\ wlast' = [op |-> "is_symbol_present", inst |-> 0, name |-> name,
                      val |-> IF r.val THEN "True" ELSE "False",
                      via |-> "", lookup |-> wloaded /\ ~IsDunder(name),
                      bound |-> FALSE]
    /\ UNCHANGED <<wloaded, wexports, winst>>
    /\ UNCHANGED notShim

NoAccess == [op |-> "none", inst |-> 0, name |-> "", val |-> "", via |-> "",
             lookup |-> FALSE, bound |-> FALSE]

\* after the import: the class body has tried to load the DLL (lines 61-66)
\* and line 139 has made the module-level instance
ShimAfterImport(loaded, exports) ==
    /\ wloaded = loaded
    /\ wexports = exports
    /\ wfuncs = [n \in Names |-> NoFunc]
    /\ winst = <<NewInstance>>
    /\ wlast = NoAccess

ShimInit ==
    \E loaded \in BOOLEAN, exports \in SUBSET DllSymbols :
        /\ ~loaded => exports = {}
        /\ ShimAfterImport(loaded, exports)

ShimIdle == ShimAfterImport(FALSE, {})

(***************************************************************************)
(* stirap_rabi_generator.py: floats, their comparison and their text       *)
(*                                                                         *)
(* A float is the fraction n/d it stands for (lowest terms, d > 0); the    *)
(* operators below never form a product that leaves the machine integers.  *)
(***************************************************************************)
RAbs(x) == [n |-> Abs(x.n), d |-> x.d]

\* p < q for p, q >= 0: a/b < c/d is decided by the integer parts and then
\* by the inverted remainders
RLess(p, q) ==
    LET RECURSIVE FracLess(_, _, _, _)
        FracLess(a, b, c, d) ==
            IF a \div b # c \div d THEN a \div b < c \div d
            ELSE IF c % d = 0 THEN FALSE
            ELSE IF a % b = 0 THEN TRUE
            ELSE FracLess(d, c % d, b, a % b)
    IN FracLess(p.n, p.d, q.n, q.d)

\* p / q for q # 0
RDiv(p, q) == Rat(p.n * q.d, p.d * q.n)

\* np.max(np.abs(arr)) of a non-empty array
RECURSIVE MaxAbs(_)
MaxAbs(arr) ==
    IF Len(arr) = 1 THEN RAbs(arr[1])
    ELSE LET m == MaxAbs(Tail(arr)) IN
         IF RLess(RAbs(arr[1]), m) THEN m ELSE RAbs(arr[1])

\* int(x): truncation toward zero
TruncInt(x) == IF x.n >= 0 THEN x.n \div x.d ELSE -((-x.n) \div x.d)

\* one step of the long division r/d (0 <= r < d): the next decimal digit
\* and the remainder 10 * r - digit * d; LeTen(k) is k * d <= 10 * r
DigitOf(r, d) ==
    LET LeTen(k) == k * (d \div 10) + ((k * (d % 10) + 9) \div 10) <= r IN
    CHOOSE k \in 0..9 : LeTen(k) /\ (k = 9 \/ ~LeTen(k + 1))
RemOf(r, d) == 10 * (r - DigitOf(r, d) * (d \div 10)) - DigitOf(r, d) * (d % 10)

\* the first `count` decimals of r/d, and what is left of the division
RECURSIVE FracDigits(_, _, _)
FracDigits(r, d, count) ==
    IF count = 0 THEN [digits |-> <<>>, rem |-> r]
    ELSE LET rest == FracDigits(RemOf(r, d), d, count - 1) IN
         [digits |-> <<DigitOf(r, d)>> \o rest.digits, rem |-> rest.rem]

\* a decimal number: sign, integer part, decimals
Dec(neg, int, frac) == [neg |-> neg, int |-> int, frac |-> frac]

\* one unit added to the last decimal, the carry running to the left
RECURSIVE AddUlp(_, _)
AddUlp(int, frac) ==
    IF frac = <<>> THEN [int |-> int + 1, frac |-> <<>>]
    ELSE LET last == frac[Len(frac)]
             init == SubSeq(frac, 1, Len(frac) - 1)
         IN IF last < 9
            THEN [int |-> int, frac |-> Append(init, last + 1)]
            ELSE LET c == AddUlp(int, init) IN
                 [int |-> c.int, frac |-> Append(c.frac, 0)]

\* the digits a directive of `places` decimals prints for x: the nearest
\* decimal, a tie going to the even last digit
RoundTo(x, places) ==
    LET a == Abs(x.n)
        q == FracDigits(a % x.d, x.d, places)
        lastOdd == IF places = 0 THEN (a \div x.d) % 2 = 1
                   ELSE q.digits[places] % 2 = 1
        up == q.rem > x.d - q.rem \/ (q.rem = x.d - q.rem /\ lastOdd)
        r == IF up THEN AddUlp(a \div x.d, q.digits)
             ELSE [int |-> a \div x.d, frac |-> q.digits]
    IN Dec(x.n < 0, r.int, r.frac)

\* the characters of a file
DigitChars == <<"0", "1", "2", "3", "4", "5", "6", "7", "8", "9">>
DigitChar(k) == DigitChars[k + 1]
IsDigit(c) == \E k \in 0..9 : DigitChar(k) = c
DigitVal(c) == CHOOSE k \in 0..9 : DigitChar(k) = c

\* line 103, fmt='%.10f': sign, integer part, point, ten decimals
FormatF10(x) ==
    LET v == RoundTo(x, 10)
        RECURSIVE IntChars(_)
        IntChars(i) ==
            IF i < 10 THEN <<DigitChar(i)>>
            ELSE Append(IntChars(i \div 10), DigitChar(i % 10))
    IN
    (IF v.neg THEN <<"-">> ELSE <<>>) \o IntChars(v.int) \o <<".">>
        \o [i \in 1..10 |-> DigitChar(v.frac[i])]

\* the value of a digit string
RECURSIVE DigitsValue(_)
DigitsValue(cs) ==
    IF cs = <<>> THEN 0
    ELSE 10 * DigitsValue(SubSeq(cs, 1, Len(cs) - 1)) + DigitVal(cs[Len(cs)])

\* decimals without their trailing zeros
RECURSIVE StripZeros(_)
StripZeros(frac) ==
    IF frac # <<>> /\ frac[Len(frac)] = 0
    THEN StripZeros(SubSeq(frac, 1, Len(frac) - 1))
    ELSE frac

\* a number as a value: no trailing zeros, no negative zero
Canon(v) ==
    LET f == StripZeros(v.frac) IN
    Dec(v.neg /\ ~(v.int = 0 /\ f = <<>>), v.int, f)

\* not a number
DNaN == Dec(FALSE, -1, <<>>)

\* float(text) / pd.to_numeric(errors='coerce') of a field: an optional
\* sign, digits, an optional point and digits, at least one digit; anything
\* else is not a number
ParseFloat(cs) ==
    LET body == IF cs # <<>> /\ cs[1] = "-" THEN Tail(cs) ELSE cs
        dots == {i \in 1..Len(body) : body[i] = "."}
        ip == IF dots = {} THEN body
              ELSE SubSeq(body, 1, (CHOOSE i \in dots : TRUE) - 1)
        fp == IF dots = {} THEN <<>>
              ELSE SubSeq(body, (CHOOSE i \in dots : TRUE) + 1, Len(body))
    IN IF /\ Cardinality(dots) <= 1
          /\ Len(ip) + Len(fp) >= 1
          /\ \A i \in 1..Len(ip) : IsDigit(ip[i])
          /\ \A i \in 1..Len(fp) : IsDigit(fp[i])
       THEN Canon(Dec(cs[1] = "-", DigitsValue(ip),
                      [i \in 1..Len(fp) |-> DigitVal(fp[i])]))
       ELSE DNaN

(***************************************************************************)
(* stirap_rabi_generator.export_to_csv                                     *)
(***************************************************************************)
\* a file: whether it exists, and its characters
File(text) == [exists |-> TRUE, text |-> text]
Absent == [exists |-> FALSE, text |-> <<>>]

\* lines 96-101: elements smaller than 10**(-9) become 0
Rescale(array) ==
    [i \in 1..Len(array) |->
        IF RLess(RAbs(array[i]), Rat(1, 1000000000)) THEN RInt(0)
        ELSE array[i]]

\* line 103: np.savetxt of a one-dimensional array writes one row per
\* element, each followed by the `newline` string, here a comma
RECURSIVE SaveTxt(_)
SaveTxt(arr) ==
    IF arr = <<>> THEN <<>>
    ELSE FormatF10(Head(arr)) \o <<",">> \o SaveTxt(Tail(arr))

\* a clean-up that leaves the last comma in the file
StripTrailingComma_Keep(text) == text

\* lines 105-110: the last character is dropped when it is a comma (the
\* file is not empty: line 107 raises on an empty one)
StripTrailingComma(text) ==
    IF text[Len(text)] = "," THEN SubSeq(text, 1, Len(text) - 1) ELSE text

\* what the environment does to the first open of the file
IoOutcomes == {"ok", "open fails"}

\* lines 92-117: the file export_to_csv leaves at full_path, where `old` was,
\* and the message it prints; every exception ends in the except clause
ExportToCsv(array, old, io) ==
    IF io = "open fails"
    THEN [file |-> old, printed |-> "Error exporting data"]
    ELSE LET text == SaveTxt(Rescale(array)) IN
         IF text = <<>>
         THEN [file |-> File(<<>>), printed |-> "Error exporting data"]
         ELSE [file |-> File(StripTrailingComma(text) \o <<"\n">>),
               printed |-> "Data successfully exported"]

(***************************************************************************)
(* stirap_rabi_generator.generate_rabi                                     *)
(***************************************************************************)
\* the pulse lengths T a call is made with: 1.0 is one of PULSE_LENGTHS
\* (line 23), and callers may pass any number
Durations == {Rat(-1, 2), Rat(1, 2), RInt(1), Rat(3, 2)}
Shapes == {"standard", "gaussian"}
SampleRates == 0..MaxSamples

\* lines 57-68: the values stokes2 and pump2 give. The envelopes are
\* transcendental; a sample is taken from a set that holds zero, a negative
\* peak, and a value that is below the threshold of export_to_csv relative
\* to that peak
EnvValues == {RInt(0), Rat(1, 2000000000), RInt(-1)}

\* line 128: np.linspace(0, T, N), for N >= 1
Linspace(T, N) ==
    [i \in 1..N |-> IF N = 1 THEN RInt(0)
                    ELSE RMul(T, Rat(i - 1, N - 1))]

\* line 127
SampleCount(T, sample_rate) == TruncInt(RMul(T, RInt(sample_rate)))

\* p < q for fractions of any sign
RLessSigned(p, q) ==
    IF p.n < 0 /\ q.n >= 0 THEN TRUE
    ELSE IF p.n >= 0 /\ q.n < 0 THEN FALSE
    ELSE IF p.n >= 0 THEN RLess(p, q)
    ELSE RLess(RAbs(q), RAbs(p))

\* np.max(arr) of a non-empty array
RECURSIVE MaxOf(_)
MaxOf(arr) ==
    IF Len(arr) = 1 THEN arr[1]
    ELSE LET m == MaxOf(Tail(arr)) IN
         IF RLessSigned(arr[1], m) THEN m ELSE arr[1]

\* a normalisation by the largest value in place of the largest magnitude
Normalize_NoAbs(arr) ==
    LET m == IF MaxOf(arr).n # 0 THEN MaxOf(arr) ELSE RInt(1) IN
    [i \in 1..Len(arr) |-> RDiv(arr[i], m)]

\* lines 150-153: an envelope divided by its own largest magnitude, or by
\* 1.0 when that is zero
Normalize(arr) ==
    LET m == IF MaxAbs(arr).n # 0 THEN MaxAbs(arr) ELSE RInt(1) IN
    [i \in 1..Len(arr) |-> RDiv(arr[i], m)]

\* line 155: f"{shape}_{T*1000:.0f}ns"
FilenamePrefix(T, shape) ==
    LET v == RoundTo(RMul(T, RInt(1000)), 0) IN
    shape \o "_" \o (IF v.neg THEN "-" ELSE "") \o ToString(v.int) \o "ns"

\* lines 158-159, and line 94
PumpPath(T, shape) == FilenamePrefix(T, shape) \o "_pump.csv"
StokesPath(T, shape) == FilenamePrefix(T, shape) \o "_stokes.csv"

\* waveform_plotter.py line 5: the file the plotter reads
stokes_path == "standard_1000ns_stokes.csv"

\* a second file name, for export_to_csv called by others
OtherPath == "other.csv"

\* the files of the output directory the model follows
Paths ==
    {PumpPath(T, "standard") : T \in Durations}
        \cup {StokesPath(T, "standard") : T \in Durations}
        \cup {stokes_path, OtherPath}

NoCall == [op |-> "none", T |-> RInt(0), shape |-> "", rate |-> 0, N |-> 0,
           P |-> <<>>, S |-> <<>>, Pn |-> <<>>, Sn |-> <<>>, array |-> <<>>,
           path |-> "", io |-> <<>>]

\* generate_rabi(T, shape, sample_rate, output_dir)
GenerateRabi ==
    /\ gcall.op = "none"
    /\ \E T \in Durations, shape \in Shapes, rate \in SampleRates :
         LET N == SampleCount(T, rate)
             call == [NoCall EXCEPT !.op = "generate_rabi", !.T = T,
                                    !.shape = shape, !.rate = rate, !.N = N]
         IN
         /\ N <= MaxSamples
         /\ IF N < 0
            THEN \* line 128: np.linspace refuses a negative count
                 /\ gcall' = call
                 /\ gret' = Raised("generate_rabi", "ValueError", "line 128")
                 /\ UNCHANGED <<gfiles, gprint>>
            ELSE IF shape # "standard"
            THEN /\ gcall' = call
                 /\ gret' = Raised("generate_rabi", "ValueError", "line 147")
                 /\ UNCHANGED <<gfiles, gprint>>
            ELSE IF N = 0
            THEN \* line 150: np.max of an empty array
                 /\ gcall' = call
                 /\ gret' = Raised("generate_rabi", "ValueError", "line 150")
                 /\ UNCHANGED <<gfiles, gprint>>
            ELSE \E P \in [1..N -> EnvValues], S \in [1..N -> EnvValues],
                    io1 \in IoOutcomes, io2 \in IoOutcomes :
                 LET Pn == Normalize(P)
                     Sn == Normalize(S)
                     e1 == ExportToCsv(Pn, gfiles[PumpPath(T, shape)], io1)
                     e2 == ExportToCsv(Sn, gfiles[StokesPath(T, shape)], io2)
                 IN
                 /\ gcall' = [call EXCEPT !.P = P, !.S = S, !.Pn = Pn,
                                          !.Sn = Sn, !.io = <<io1, io2>>]
                 /\ gfiles' = [gfiles EXCEPT ![PumpPath(T, shape)] = e1.file,
                                             ![StokesPath(T, shape)] = e2.file]
                 /\ gprint' = gprint \o <<e1.printed, e2.printed>>
                 /\ gret' = Returned("generate_rabi", FilenamePrefix(T, shape))
    /\ UNCHANGED gread
    /\ UNCHANGED notWave

\* the values an array given to export_to_csv holds: zero, a negative value
\* below the threshold, the threshold itself, and values that are rounded
\* up at the tenth decimal (the second of them negative, with a carry)
ArrayValues ==
    {RInt(0), Rat(-1, 2000000000), Rat(1, 1000000000), Rat(2, 3),
     Rat(-10, 101)}

\* export_to_csv(array, filepath, filename), called on its own
ExportCall ==
    /\ gcall.op = "none"
    /\ \E n \in 0..MaxArray, path \in {stokes_path, OtherPath},
          io \in IoOutcomes :
         \E array \in [1..n -> ArrayValues] :
            LET e == ExportToCsv(array, gfiles[path], io) IN
            /\ gcall' = [NoCall EXCEPT !.op = "export_to_csv",
                                       !.array = array, !.path = path,
                                       !.io = <<io>>]
            /\ gfiles' = [gfiles EXCEPT ![path] = e.file]
            /\ gprint' = Append(gprint, e.printed)
            /\ gret' = Returned("export_to_csv", "None")
    /\ UNCHANGED gread
    /\ UNCHANGED notWave

(***************************************************************************)
(* waveform_plotter.py                                                     *)
(***************************************************************************)
\* the characters before the first line end
FirstLine(text) ==
    LET ends == {i \in 1..Len(text) : text[i] = "\n"} IN
    IF ends = {} THEN text
    ELSE SubSeq(text, 1, (CHOOSE i \in ends : \A j \in ends : i <= j) - 1)

\* csv.Sniffer on one line without quotes (sep=None, engine='python'): of
\* the characters that occur, the first of the preferred delimiters; when
\* none of them occurs, the most frequent character, the greatest of these
\* when several are as frequent
Sniff(line) ==
    LET present == {line[i] : i \in 1..Len(line)}
        preferred == <<",", "\t", ";", " ", ":">>
        hits == {i \in 1..Len(preferred) : preferred[i] \in present}
        Count(c) == Cardinality({i \in 1..Len(line) : line[i] = c})
        CharOrder == <<",", "-", ".">> \o DigitChars
        CharOrd(c) == CHOOSE i \in 1..Len(CharOrder) : CharOrder[i] = c
    IN IF hits # {}
       THEN preferred[CHOOSE i \in hits : \A j \in hits : i <= j]
       ELSE CHOOSE c \in present : \A o \in present :
                \/ Count(o) < Count(c)
                \/ (Count(o) = Count(c) /\ CharOrd(o) <= CharOrd(c))

\* the fields of a line for a delimiter
RECURSIVE Split(_, _)
Split(line, delim) ==
    LET at == {i \in 1..Len(line) : line[i] = delim} IN
    IF at = {} THEN <<line>>
    ELSE LET first == CHOOSE i \in at : \A j \in at : i <= j IN
         <<SubSeq(line, 1, first - 1)>>
             \o Split(SubSeq(line, first + 1, Len(line)), delim)

\* `after` names the call that had been made when the plotter ran
NoRead == [done |-> FALSE, how |-> "", rows |-> 0, cols |-> 0, values |-> <<>>,
           after |-> ""]
ReadRaised(exc) ==
    [done |-> TRUE, how |-> exc, rows |-> 0, cols |-> 0, values |-> <<>>,
     after |-> ""]

\* lines 9-13: the file is read without a header, a single row of several
\* fields is turned into a column, every cell becomes a number or NaN, and
\* a column of nothing but NaN is dropped. The files followed hold one line.
ReadPlot(file) ==
    IF ~file.exists THEN ReadRaised("FileNotFoundError")
    ELSE IF file.text = <<>> THEN ReadRaised("EmptyDataError")
    ELSE LET line == FirstLine(file.text)
             fields == Split(line, Sniff(line))
             cells == [i \in 1..Len(fields) |-> ParseFloat(fields[i])]
             allNaN == \A i \in 1..Len(cells) : cells[i] = DNaN
         IN [done |-> TRUE, how |-> "ok", rows |-> Len(cells),
             cols |-> IF allNaN THEN 0 ELSE 1,
             values |-> IF allNaN THEN <<>> ELSE cells, after |-> ""]

\* the script: it reads stokes_path
PlotterRead ==
    /\ ~gread.done
    /\ gread' = [ReadPlot(gfiles[stokes_path]) EXCEPT !.after = gcall.op]
    /\ UNCHANGED <<gcall, gret, gfiles, gprint>>
    /\ UNCHANGED notWave

(***************************************************************************)
(* The waveform machine                                                    *)
(***************************************************************************)
WaveBefore(prior) ==
    /\ gcall = NoCall /\ gret = NoResult
    /\ gfiles = [p \in Paths |-> prior]
    /\ gprint = <<>> /\ gread = NoRead

\* the directory is empty, or every file holds what an earlier run left
WaveInit ==
    LET stale == File(FormatF10(RInt(9)) \o <<",">> \o FormatF10(RInt(9))
                          \o <<"\n">>)
    IN \E prior \in {Absent, stale} : WaveBefore(prior)
WaveIdle == WaveBefore(Absent)

(***************************************************************************)
(* The oscilloscope machine                                                *)
(***************************************************************************)
ScopeInit ==
    /\ sobj = "none" /\ sopen = FALSE
    /\ slog = <<>> /\ sprint = <<>>
    /\ scall = "none" /\ spc = "idle"
    /\ snow = 0 /\ send = 0 /\ spi = 1
    /\ spolls = <<>> /\ sready = <<FALSE, FALSE>> /\ sseen = NoneSeen
    /\ sret = NoResult /\ scalls = 0
    /\ sbase = 0 /\ sfault = NoFault

ScopeMachineInit ==
    ScopeInit /\ MeasIdle /\ FitIdle /\ MainIdle /\ ShimIdle /\ WaveIdle

ScopeNext ==
    \/ ScopeConstruct
    \/ ArmStart \/ ArmPoll \/ ArmSleep \/ ArmExpire \/ ArmFail
    \/ WaitStart \/ WaitPoll \/ WaitSleep \/ WaitExpire \/ WaitFail

ScopeSpec == ScopeMachineInit /\ [][ScopeNext]_vars

\* every started step of a call is eventually taken: the calls are
\* sequential, blocking code
ScopeLive == ScopeSpec /\ WF_vars(ScopeNext)

(***************************************************************************)
(* The calibration machine: measure_loop, fit_and_interpolate, the script  *)
(***************************************************************************)
CalibInit ==
    MeasInit /\ FitIdle /\ MainIdle /\ ScopeInit /\ ShimIdle /\ WaveIdle

CalibNext ==
    \/ MeasureCall \/ MeasureOuter \/ MeasureStep \/ MeasureInnerEnd
    \/ MeasureSave
    \/ FitCall \/ PredictCall
    \/ MainStart \/ MainOpenTarget \/ MainOpenFlip \/ MainCheck
    \/ MainConfigure \/ MainMeasure \/ MainMeasureRaised \/ MainClose

CalibSpec == CalibInit /\ [][CalibNext]_vars

\* fit_and_interpolate alone, on tables of a known line
FitNext == FitCall \/ PredictCall
FitMachineInit == FitInit /\ MainIdle /\ ScopeInit /\ ShimIdle /\ WaveIdle
FitSpec == FitMachineInit /\ [][FitNext]_vars

(***************************************************************************)
(* The shim machine                                                        *)
(***************************************************************************)
ShimMachineInit ==
    ShimInit /\ ScopeInit /\ MeasIdle /\ FitIdle /\ MainIdle /\ WaveIdle

ShimNext == ShimNew \/ ShimAccess \/ IsSymbolPresent

ShimSpec == ShimMachineInit /\ [][ShimNext]_vars

(***************************************************************************)
(* The waveform machine: its specification                                 *)
(***************************************************************************)
WaveMachineInit ==
    WaveInit /\ ScopeInit /\ MeasIdle /\ FitIdle /\ MainIdle /\ ShimIdle

WaveNext == GenerateRabi \/ ExportCall \/ PlotterRead

WaveSpec == WaveMachineInit /\ [][WaveNext]_vars

Init == CalibInit
Next == ScopeNext \/ CalibNext \/ ShimNext \/ WaveNext
Spec == Init /\ [][Next]_vars

(***************************************************************************)
(* Properties of OscilloscopeManager                                       *)
(***************************************************************************)
ArmEnded == scall = "none" /\ sret.by = "arm_scope"
WaitEnded == scall = "none" /\ sret.by = "wait_for_acquisition"

\* what arm_scope has to leave behind when it has ended
ArmOutcome ==
    /\ sret \in {Returned("arm_scope", "True"),
                 Raised("arm_scope", "RuntimeError", "line 363")}
    /\ (sret.how = "returned") <=> (\E i \in 1..Len(spolls) : spolls[i].r = IntOf(1))
    /\ \A i \in 1..Len(spolls) :
         /\ spolls[i].t < send
         /\ spolls[i].r = IntOf(1) => i = Len(spolls)
    /\ Len(slog) >= sbase + 2 + Len(spolls)
    /\ SubSeq(slog, sbase + 1, sbase + 2) = <<"q::AER?", "w::SINGLE">>
    /\ \A i \in 1..Len(spolls) : slog[sbase + 2 + i] = "q::AER?"

\* C1: arm_scope is a bounded polling loop. After one :AER? read and the
\* :SINGLE write it polls :AER? only before the deadline; it returns True at
\* the first poll that reads 1, raises RuntimeError when no poll read 1, has no
\* other outcome (no False, no None), and every call ends.
ArmScopeBoundedPolling ==
    /\ [](ArmEnded => ArmOutcome)
    /\ [](scall = "arm" => sret = NoResult)
    /\ ((scall = "arm") ~> ArmEnded)

\* C1 witness: two polls read something other than 1, the deadline passed and
\* the call raised
ArmTimedOutWitness ==
    /\ ArmEnded /\ sret.how = "raised"
    /\ Len(spolls) >= 2 /\ ~(snow < send)
    /\ \A i \in 1..Len(spolls) : spolls[i].r.ok

\* the deadline of wait_for_acquisition passed before both flags were seen
WaitTimedOut ==
    /\ WaitEnded /\ ~(snow < send) /\ ~(sready[1] /\ sready[2])

\* C2 as stated: when max_acq_wait_sec elapses without the acquisition having
\* been seen complete, wait_for_acquisition ends by raising an error.
WaitTimeoutRaises == WaitTimedOut => sret.how = "raised"

\* C2 as amended: when max_acq_wait_sec elapses without the acquisition having
\* been seen complete, wait_for_acquisition ends by returning False and raises
\* nothing.
WaitTimeoutReturnsFalse ==
    WaitTimedOut => sret = Returned("wait_for_acquisition", "False")

\* C2 witness: two polls without completion, then the deadline
WaitTimedOutWitness == WaitTimedOut /\ Len(spolls) >= 2

\* number of times a VISA operation was issued
OpCount(op) == Cardinality({i \in 1..Len(slog) : slog[i] = op})

\* C8: when the constructor's VISA calls fail with a VISA error, __init__
\* prints one diagnostic, re-raises that same error, has issued no VISA
\* operation twice (no retry) and leaves no object to call methods on.
ConnectFailureReportedNotRecovered ==
    sfault.kind = "visa.Error" =>
        /\ sret = Raised("__init__", sfault.kind, sfault.at)
        /\ sprint = <<"Error al conectar con el osciloscopio">>
        /\ sobj = "none" /\ scalls = 0
        /\ \A s \in 1..Len(InitSteps) : OpCount(InitOp(InitSteps[s])) <= 1

\* C8 witness: the *IDN? query failed with a VISA error
ConnectFailureWitness ==
    /\ sfault = [kind |-> "visa.Error", at |-> "idn"]
    /\ sret.how = "raised"
(***************************************************************************)
(* Properties of calibrate_flip_arm.py                                     *)
(***************************************************************************)
MeasureCompleted == mret = Returned("measure_loop", "None")

\* row i of the file is the i-th pass of the loop body: the voltage that was
\* set, and the two readings taken at that step and that voltage
RowPaired(i) ==
    /\ 2 * i <= Len(hreads)
    /\ LET row == mfile.rows[i]
           r1 == hreads[2 * i - 1]
           r2 == hreads[2 * i]
       IN /\ r1 = [meter |-> "flip", step |-> i, volt |-> row[1], val |-> row[2]]
          /\ r2 = [meter |-> "target", step |-> i, volt |-> row[1], val |-> row[3]]

\* C3: measure_loop repeats the whole sweep `repeats` times: for any iterable
\* of n voltages and repeats >= 1, a call in which no callable raises writes
\* exactly repeats*n rows, in sweep order, each pairing the voltage set with
\* the two readings taken while it was set.
SweepRepeatedWhole ==
    MeasureCompleted =>
        LET n == Len(margs.voltages) IN
        /\ Len(mfile.rows) = margs.repeats * n
        /\ \A i \in 1..Len(mfile.rows) :
             /\ mfile.rows[i][1] = margs.voltages[((i - 1) % n) + 1]
             /\ RowPaired(i)

\* C4: measure_loop calls `flip` only with "in" or "out".
FlipCalledWithInOrOut ==
    \A i \in 1..Len(flipCalls) : flipCalls[i] \in {"in", "out"}

\* C5: after a measure_loop call that completes, the file holds the header
\* voltage,power_flip,power_target,timestamp followed by the rows of this
\* call and nothing else, whatever it held before.
MeasureOverwritesCsv ==
    MeasureCompleted =>
        /\ mfile = [exists |-> TRUE,
                    header |-> <<"voltage", "power_flip", "power_target",
                                 "timestamp">>,
                    rows |-> mdata]
        /\ Len(mfile.rows) = hw.step
        /\ \A i \in 1..Len(mfile.rows) : RowPaired(i)

\* C5 witness: a completed call with rows, at a path that held an earlier
\* run's rows
MeasureOverwritesWitness ==
    /\ MeasureCompleted /\ Len(mdata) >= 2
    /\ mfile0.exists /\ mfile0.rows # <<>>

\* the known line of the table applies: every point on it, two distinct x
KnownLine ==
    /\ ftruth.known /\ ftruth.clean
    /\ \E i, j \in 1..Len(ftruth.xs) : ftruth.xs[i] # ftruth.xs[j]

\* C6: for a calibration table whose points all lie on power2 = a*power1 + b,
\* with two distinct power1 values, fit_and_interpolate returns the pair
\* (predict, fit_info) with fit_info slope a, intercept b and n the number of
\* rows, and predict(p) = a*p + b.
FitRecoversKnownLine ==
    (KnownLine /\ fret # NoResult) =>
        /\ fret = Returned("fit_and_interpolate", "(predict, fit_info)")
        /\ finfo.a = RInt(ftruth.a) /\ finfo.b = RInt(ftruth.b)
        /\ finfo.n = Len(ftruth.xs) /\ finfo.n = Len(mfile.rows)
        /\ predOut.called =>
             predOut.val = RInt(ftruth.a * predOut.p1 + ftruth.b)

\* C6 witness: predict was called on the fit of a sloped line
FitRecoversWitness ==
    /\ KnownLine /\ ftruth.a # 0 /\ Len(ftruth.xs) >= 3
    /\ predOut.called /\ predOut.p1 # 0

\* C7: reading a file written by measure_loop, fit_and_interpolate takes
\* power_flip as x and power_target as y: x and y are the flip-arm and the
\* target readings of the rows, in order; voltage and timestamp are not used.
FitReadsMeasuredColumns ==
    fread = "measure_loop" =>
        /\ mfile.header = <<"voltage", "power_flip", "power_target", "timestamp">>
        /\ Len(fitX) = Len(mdata) /\ Len(fitY) = Len(mdata)
        /\ \A i \in 1..Len(mdata) :
             /\ fitX[i] = mdata[i][2] /\ fitY[i] = mdata[i][3]
             /\ hreads[2 * i - 1].meter = "flip" /\ fitX[i] = hreads[2 * i - 1].val
             /\ hreads[2 * i].meter = "target" /\ fitY[i] = hreads[2 * i].val

\* C7 witness: a fit of a measured file with two rows
FitReadsMeasuredWitness ==
    /\ fread = "measure_loop" /\ Len(fitX) >= 2
    /\ fret = Returned("fit_and_interpolate", "(predict, fit_info)")

\* a power meter could not be opened or did not identify as PM100A
MeterMissing ==
    /\ ameters.target # "not tried"
    /\ ameters.target # "PM100A" \/ ameters.flip \notin {"PM100A", "not tried"}

\* C9: with a power meter missing, the script reports the failure and stops
\* with the exception "One of the power meters was not found, cannot
\* continue." before anything is configured, swept or written.
MissingMeterStopsWithMessage ==
    (MeterMissing /\ apc \notin {"open_flip", "check"}) =>
        /\ aret = Raised("__main__",
                         "Exception: One of the power meters was not found, cannot continue.",
                         "line 209")
        /\ aconf = <<>> /\ hw.step = 0 /\ flipCalls = <<>> /\ mfile = mfile0

(***************************************************************************)
(* Properties of WX218x_dll_compat_shim.py                                 *)
(***************************************************************************)
\* the last operation was an access of a public name the loaded DLL does not
\* export
MissingAccessed ==
    /\ wlast.op = "access" /\ wloaded
    /\ ~StartsWithUnderscore(wlast.name) /\ wlast.name \notin wexports

\* the access gave None, None is stored, and an access that found the name
\* stored did not go to __getattr__ or the DLL
YieldsStoredNone ==
    /\ wlast.val = "None"
    /\ winst[wlast.inst][wlast.name] = "None"
    /\ wlast.bound => (~wlast.lookup /\ wlast.via = "instance")
    /\ ~wlast.bound => (wlast.lookup /\ wlast.via = "__getattr__")

\* is_symbol_present is False for exactly the public names not exported
PresentIffExported ==
    (wlast.op = "is_symbol_present" /\ wloaded
     /\ ~StartsWithUnderscore(wlast.name)) =>
        ((wlast.val = "False") <=> (wlast.name \notin wexports))

\* C10 as stated: accessing a public name that the loaded DLL does not export
\* returns None, which is stored on the instance so that later accesses yield
\* None without another DLL lookup; is_symbol_present is False for exactly
\* those names.
MissingSymbolYieldsNone ==
    /\ MissingAccessed => YieldsStoredNone
    /\ PresentIffExported

\* C10 as amended: the same for the public names that the class does not
\* define itself (init and init_with_options are its methods).
MissingNonClassSymbolYieldsNone ==
    /\ (MissingAccessed /\ wlast.name \notin ClassAttrs) => YieldsStoredNone
    /\ PresentIffExported

\* C10 witness: a second access of a missing symbol, answered from the
\* instance
MissingSymbolWitness ==
    /\ MissingAccessed /\ wlast.name \in DllSymbols
    /\ wlast.bound /\ wlast.val = "None"

\* the last operation was an access, on a loaded DLL, of a name the DLL
\* exports
ExportedAccessed ==
    /\ wlast.op = "access" /\ wloaded
    /\ wlast.name \in wexports

\* the prototype the claim gives a bound function
ExpectedPrototype(name) ==
    IF name \in DOMAIN KNOWN_PROTOTYPES
    THEN [made |-> TRUE, restype |-> KNOWN_PROTOTYPES[name].restype,
          argtypes |-> KNOWN_PROTOTYPES[name].argtypes]
    ELSE [made |-> TRUE, restype |-> "c_long", argtypes |-> <<"unset">>]

\* what an access of an exported name gives and leaves behind
BoundLazily ==
    ExportedAccessed =>
        /\ wlast.val = "func"
        /\ winst[wlast.inst][wlast.name] = "func"
        /\ wfuncs[wlast.name] = ExpectedPrototype(wlast.name)
        /\ ~wlast.bound => (wlast.lookup /\ wlast.via = "__getattr__")
        /\ wlast.bound => (~wlast.lookup /\ wlast.via = "instance")

\* a name starting with '_' never reaches the DLL through an instance
UnderscoreNotLookedUp ==
    (wlast.op = "access" /\ StartsWithUnderscore(wlast.name)) =>
        (~wlast.lookup /\ ~wfuncs[wlast.name].made)

\* what an instance has bound stays bound, to the same value
BindingKept ==
    \A i \in 1..Len(winst) : \A n \in Names :
        winst[i][n] # "unset" => winst'[i][n] = winst[i][n]

\* C11: the first access of an exported name on an instance goes through
\* __getattr__, looks the symbol up in the DLL, gives the function its
\* prototype (the KNOWN_PROTOTYPES entry, otherwise restype c_long and no
\* argtypes) and stores it on the instance; a later access of the name on
\* that instance is answered from the instance with the same function and
\* without __getattr__; a binding is never undone; a name starting with '_'
\* is never looked up in the DLL.
LazyBindingOncePerInstance ==
    /\ [](BoundLazily /\ UnderscoreNotLookedUp)
    /\ [][BindingKept]_vars

\* C11 witness: the second instance answers a repeated access of an exported
\* name without a known prototype from its own dictionary
LazyBindingWitness ==
    /\ ExportedAccessed /\ wlast.bound /\ wlast.inst = 2
    /\ wlast.name \notin DOMAIN KNOWN_PROTOTYPES
    /\ winst[1][wlast.name] = "func"

(***************************************************************************)
(* Properties of stirap_rabi_generator.py and waveform_plotter.py          *)
(***************************************************************************)
\* the lines of a file
Lines(text) ==
    LET parts == Split(text, "\n") IN
    IF parts[Len(parts)] = <<>> THEN SubSeq(parts, 1, Len(parts) - 1) ELSE parts

\* the fields of one line, and the numbers they stand for
Fields(line) == Split(line, ",")
Numbers(line) == [i \in 1..Len(Fields(line)) |-> ParseFloat(Fields(line)[i])]

DZero == Dec(FALSE, 0, <<>>)
IsUnit(v) == v.int = 1 /\ v.frac = <<>>
AtMostUnit(v) == v # DNaN /\ (v.int = 0 \/ IsUnit(v))

GenerateReturned == gcall.op = "generate_rabi" /\ gret.how = "returned"

\* the samples a file holds are those of a normalised envelope `raw`
NormalizedExport(raw, file) ==
    LET samples == Numbers(FirstLine(file.text)) IN
    /\ Len(samples) = TruncInt(RMul(gcall.T, RInt(gcall.rate)))
    /\ IF \A i \in 1..Len(raw) : raw[i].n = 0
       THEN \A i \in 1..Len(samples) : samples[i] = DZero
       ELSE /\ \E i \in 1..Len(samples) : IsUnit(samples[i])
            /\ \A i \in 1..Len(samples) : AtMostUnit(samples[i])

\* C12: when generate_rabi has returned, each file it exported holds
\* int(T * sample_rate) samples; the largest magnitude among the pump
\* samples is 1 and so is the largest among the Stokes samples, each
\* envelope being normalised by itself; an envelope that is zero everywhere
\* is exported as zeros.
EnvelopesNormalizedSeparately ==
    GenerateReturned =>
        /\ gcall.io[1] = "ok" =>
             NormalizedExport(gcall.P, gfiles[PumpPath(gcall.T, gcall.shape)])
        /\ gcall.io[2] = "ok" =>
             NormalizedExport(gcall.S, gfiles[StokesPath(gcall.T, gcall.shape)])

\* C12 witness: both files exported; the pump envelope holds its peak and a
\* smaller value, the Stokes envelope is zero everywhere
EnvelopesNormalizedWitness ==
    /\ GenerateReturned /\ gcall.io = <<"ok", "ok">>
    /\ gcall.N >= 2
    /\ \E i, j \in 1..gcall.N :
         /\ gcall.P[i] = RInt(-1) /\ gcall.P[j] = Rat(1, 2000000000)
    /\ \A i \in 1..gcall.N : gcall.S[i] = RInt(0)

\* a file whose records are time, Omega_P_norm, Omega_S_norm
TimePumpStokesRecords(file) ==
    LET lines == Lines(file.text)
        t == Linspace(gcall.T, gcall.N)
    IN
    /\ Len(lines) = gcall.N
    /\ \A i \in 1..Len(lines) :
         /\ Len(Fields(lines[i])) = 3
         /\ Numbers(lines[i])[1] = Canon(RoundTo(t[i], 10))
         /\ Numbers(lines[i])[2] = Canon(RoundTo(Rescale(gcall.Pn)[i], 10))
         /\ Numbers(lines[i])[3] = Canon(RoundTo(Rescale(gcall.Sn)[i], 10))

\* C13: every CSV file generate_rabi has written has the format time,
\* Omega_P_norm, Omega_S_norm: one record per time value, carrying that time
\* and the normalised pump and Stokes value for it.
CsvFormatTimePumpStokes ==
    GenerateReturned =>
        /\ gcall.io[1] = "ok" =>
             TimePumpStokesRecords(gfiles[PumpPath(gcall.T, gcall.shape)])
        /\ gcall.io[2] = "ok" =>
             TimePumpStokesRecords(gfiles[StokesPath(gcall.T, gcall.shape)])

ExportedArray ==
    /\ gcall.op = "export_to_csv" /\ gcall.io = <<"ok">>
    /\ Len(gcall.array) >= 2

\* the number a written value reads back as: zero below 1e-9 in magnitude,
\* otherwise the value at ten decimals
WrittenValue(x) ==
    IF RLess(RAbs(x), Rat(1, 1000000000)) THEN DZero
    ELSE Canon(RoundTo(x, 10))

\* one line of n fields of ten decimals, no trailing comma, a final newline
OneLineOfFields(text, array) ==
    LET line == FirstLine(text) IN
    /\ Len(text) = Len(line) + 1 /\ text[Len(text)] = "\n"
    /\ line[Len(line)] # ","
    /\ Len(Fields(line)) = Len(array)
    /\ \A i \in 1..Len(array) :
         LET f == Fields(line)[i] IN
         /\ Len(f) >= 12 /\ f[Len(f) - 10] = "."
         /\ ParseFloat(f) = WrittenValue(array[i])
         /\ WrittenValue(array[i]) = DZero => f[1] = "0"

\* C14: for an array of n >= 2 values export_to_csv writes one line of n
\* comma-separated fields with no trailing comma and a final newline, values
\* below 1e-9 in magnitude as 0; read back the way waveform_plotter reads,
\* the file gives one column of n numbers in the order written, equal to
\* the written values at ten decimals.
WaveformCsvRoundTrip ==
    ExportedArray =>
        /\ OneLineOfFields(gfiles[gcall.path].text, gcall.array)
        /\ (gcall.path = stokes_path /\ gread.after = "export_to_csv") =>
             /\ gread.how = "ok"
             /\ gread.rows = Len(gcall.array) /\ gread.cols = 1
             /\ gread.values = [i \in 1..Len(gcall.array) |->
                                  WrittenValue(gcall.array[i])]

\* C14 witness: three different values, one of them below the threshold and
\* one rounded with a carry, written to the file the plotter has then read
WaveformCsvWitness ==
    /\ ExportedArray /\ gcall.path = stokes_path
    /\ gread.after = "export_to_csv"
    /\ gcall.array = <<Rat(-10, 101), Rat(-1, 2000000000), Rat(2, 3)>>

(***************************************************************************)
(* Properties of OscilloscopeManager.wait_for_acquisition                  *)
(***************************************************************************)
WaitQueries == {"q::TER?", "q::OPER?", "q::RSTATE?", "q::PDER?"}

\* the call has only queried the scope, and the session is still open
WaitOnlyQueries ==
    (scall = "wait" \/ WaitEnded) =>
        /\ sopen
        /\ \A i \in (sbase + 1)..Len(slog) : slog[i] \in WaitQueries

\* every poll was begun before the deadline
WaitPolledInTime ==
    (scall = "wait" \/ WaitEnded) =>
        \A i \in 1..Len(spolls) : spolls[i].t < send

\* within a call a flag that is set stays set
WaitFlagsKept ==
    scall = "wait" => \A i \in 1..2 : sready[i] => sready'[i]

\* C15 as stated: wait_for_acquisition returns True exactly when, in polls
\* begun before the deadline and with no register reply so far that is not
\* an integer, some poll has shown TER non-zero and some poll has shown
\* RSTATE = STOP with OPER = 2 and PDER = 1; a flag once set is not cleared
\* within the call; the call only queries the scope.
WaitLatchesUntilAnyBadReply ==
    /\ [](WaitEnded =>
            ((sret = Returned("wait_for_acquisition", "True"))
                <=> (sseen.ter /\ sseen.done /\ ~sseen.garbled)))
    /\ [](WaitPolledInTime /\ WaitOnlyQueries)
    /\ [][WaitFlagsKept]_vars

\* C15 as amended: the same, where the replies that end the wait are those
\* the code converts and cannot: TER at every poll, OPER only when RSTATE is
\* STOP, PDER only when OPER is 2 as well.
WaitLatchesUntilFailedConversion ==
    /\ [](WaitEnded =>
            ((sret = Returned("wait_for_acquisition", "True"))
                <=> (sseen.ter /\ sseen.done /\ ~sseen.failed)))
    /\ [](WaitPolledInTime /\ WaitOnlyQueries)
    /\ [][WaitFlagsKept]_vars

\* C15 witness: the first poll did not complete the wait, the second did,
\* and a reply that was never converted was no integer
WaitLatchedWitness ==
    /\ WaitEnded /\ sret = Returned("wait_for_acquisition", "True")
    /\ Len(spolls) = 2 /\ spolls[1].r = "sleep"
    /\ sseen.garbled /\ ~sseen.failed
====
